---- MODULE Spec2Model ----
(***************************************************************************)
(* The four generated end-to-end scripts of testsprite_tests, each a       *)
(* coroutine run_test() driven by asyncio.run.  A run is a straight-line   *)
(* sequence of awaited browser calls inside try, followed by the finally   *)
(* block that releases context, browser and the automation session.        *)
(* Every awaited call is modelled in two steps (Start, then Complete or    *)
(* Fail); what the application under test does is the nondeterministic     *)
(* choice between Complete and Fail.                                       *)
(***************************************************************************)
EXTENDS Integers, Sequences, FiniteSets, TLC

VARIABLES
    runs,        \* the script processes that exist (each executes asyncio.run(run_test()))
    script,      \* script[r]: which file run r executes
    pc,          \* pc[r]: "try", "finally" or "done"
    ip,          \* ip[r]: index of the next statement in the block pc[r] names
    framesLeft,  \* framesLeft[r]: iterations left of `for frame in page.frames`
    inflight,    \* inflight[r]: the awaited calls that started and have not returned
    swallowed,   \* swallowed[r]: the call that returned last raised and its error was ignored
    exc,         \* exc[r]: the exception propagating out of run_test, or None
    pw,          \* the local variables of run_test
    browser,
    context,
    page,
    log,         \* log[r]: the calls that returned or raised, in order, each with the error
                 \* it raised (the load-state waits are not logged)
    result       \* result[r]: "running", "passed" (returned normally) or "raised"

vars == <<runs, script, pc, ip, framesLeft, inflight, swallowed, exc,
          pw, browser, context, page, log, result>>

\* The largest number of frames page.frames is taken to hold (the main frame included).
MaxFrames == 2

Scripts == {"TC005", "TC014", "TC016", "TC020"}

ScriptOrder == << "TC005", "TC014", "TC016", "TC020" >>

None == <<>>
NoExc == "None"

\* One statement of a script: the call, what it is applied to, its argument, and
\* the except clause around it ("ignore": except async_api.Error: pass;
\* "describe": except AssertionError: raise AssertionError(<message>); "none").
Op(kind, target, arg, handler) ==
    [kind |-> kind, target |-> target, arg |-> arg, handler |-> handler]

\* `await page.wait_for_timeout(3000); await elem.<kind>(...)`
Step(kind, target, arg) ==
    << Op("pause", "page", "3000", "none"), Op(kind, target, arg, "none") >>

\* pw, browser, context and page are acquired in this order.
Acquire ==
    << Op("start", "pw", "", "none"),
       Op("launch", "browser", "headless", "none"),
       Op("new_context", "context", "", "none"),
       Op("new_page", "page", "", "none") >>

\* goto, the wait for the page and the loop over the frames.
Navigate ==
    << Op("goto", "page", "http://localhost:5322", "none"),
       Op("wait_page", "page", "domcontentloaded", "ignore"),
       Op("for", "page.frames", "", "none"),
       Op("wait_frame", "frame", "domcontentloaded", "ignore") >>

FillLogin(email, password) ==
    Step("fill", "Email", email) \o Step("fill", "Password", password)
        \o Step("click", "Submit", "")

StandardLogin ==
    Step("click", "LoginLink", "")
        \o FillLogin("jane.smith@example.com", "MySecurePassword123!")

Sleep == << Op("sleep", "asyncio", "5", "none") >>

TC005 ==
    Acquire \o Navigate \o StandardLogin
        \o Step("click", "DocumentsTab", "")
        \o << Op("expect", "Document processing completed successfully", "1000", "describe") >>
        \o Sleep

\* Mutant: the scroll is missing.
TC016NoWheel ==
    Acquire \o Navigate \o StandardLogin
        \o Step("click", "DocumentsQuickLink", "")
        \o << Op("expect", "Batch size configuration successful", "1000", "describe") >>
        \o Sleep

TC016 ==
    Acquire \o Navigate \o StandardLogin
        \o << Op("wheel", "page.mouse", "300", "none") >>
        \o Step("click", "DocumentsQuickLink", "")
        \o << Op("expect", "Batch size configuration successful", "1000", "describe") >>
        \o Sleep

TC020 ==
    Acquire \o Navigate \o StandardLogin
        \o Step("click", "DocumentsQuickLink", "")
        \o << Op("expect", "Document upload successful and searchable within 2 minutes",
                 "1000", "describe") >>
        \o Sleep

TC014Texts ==
    << "Welcome back",
       "Access your knowledge base and search platform",
       "Continue",
       "By continuing, you agree to ourTermsandPrivacy Policy.",
       "New to Quodo?Create an account",
       "Secure access to your data",
       "Enterprise-grade search platform",
       "Lightning-fast full-text search",
       "Advanced document preview",
       "Team sharing and permissions" >>

\* Mutant: the administrator logs in once.
TC014OneRound ==
    Acquire \o Navigate \o StandardLogin
        \o Step("click", "Logout", "")
        \o FillLogin("admin@example.com", "AdminPassword!2025")
        \o [i \in 1..Len(TC014Texts) |-> Op("expect", TC014Texts[i], "30000", "none")]
        \o Sleep

TC014 ==
    Acquire \o Navigate \o StandardLogin
        \o Step("click", "Logout", "")
        \o FillLogin("admin@example.com", "AdminPassword!2025")
        \o FillLogin("admin@example.com", "AdminPassword!2025")
        \o [i \in 1..Len(TC014Texts) |-> Op("expect", TC014Texts[i], "30000", "none")]
        \o Sleep

Program(s) ==
    CASE s = "TC005" -> TC005
      [] s = "TC014" -> TC014
      [] s = "TC016" -> TC016
      [] s = "TC020" -> TC020

\* The finally block: three guarded releases.
Finally ==
    << Op("close", "context", "", "none"),
       Op("close", "browser", "", "none"),
       Op("stop", "pw", "", "none") >>

\* The statement run r is at.
Code(r) == IF pc[r] = "try" THEN Program(script[r]) ELSE Finally

Cur(r) == Code(r)[ip[r]]

\* The library's exception classes: TimeoutError derives from Error.
IsInstance(e, cls) == e = cls \/ (e = "TimeoutError" /\ cls = "Error")

\* What a call can raise: any library call an Error, one with a timeout a
\* TimeoutError, expect(...).to_be_visible an AssertionError; asyncio.sleep nothing.
Raises(op) ==
    CASE op.kind \in {"wait_page", "wait_frame"} -> {"TimeoutError", "Error"}
      [] op.kind \in {"goto", "click", "fill"} -> {"TimeoutError"}
      [] op.kind = "expect" -> {"AssertionError", "Error"}
      [] op.kind = "sleep" -> {}
      [] OTHER -> {"Error"}

\* Mutant: only the timeout is ignored.
IgnoreCatchesTimeout(e) == IsInstance(e, "TimeoutError")

\* `except async_api.Error: pass` around the load-state waits.
IgnoreCatches(e) == IsInstance(e, "Error")

\* Mutant: the clause names the library's TimeoutError instead.
DescribeCatchesTimeout(e) == IsInstance(e, "TimeoutError")

\* `except AssertionError: raise AssertionError("Test ... failed: ...")`.
DescribeCatches(e) == IsInstance(e, "AssertionError")

\* Mutant: the except clause of the final assertion passes instead of raising.
PropagatedPass(op, e) ==
    CASE op.handler = "ignore" /\ IgnoreCatches(e) -> NoExc
      [] op.handler = "describe" /\ DescribeCatches(e) -> NoExc
      [] OTHER -> e

\* The exception that leaves statement op when its call raises e (NoExc: none).
Propagated(op, e) ==
    CASE op.handler = "ignore" /\ IgnoreCatches(e) -> NoExc
      [] op.handler = "describe" /\ DescribeCatches(e) -> "DescriptiveAssertionError"
      [] OTHER -> e

\* The object a successful acquisition returns: the library creates it for the
\* calling process.
NewHandle(r, name) == <<r, name>>

\* The value of the local variable a statement of the finally block tests.
Local(r, name) ==
    CASE name = "pw" -> pw[r]
      [] name = "browser" -> browser[r]
      [] name = "context" -> context[r]
      [] name = "page" -> page[r]

\* Mutant: the release is called without the test.
GuardAlways(r, op) == TRUE

\* `if context:` / `if browser:` / `if pw:`
Guard(r, op) == Local(r, op.target) # None

\* Mutant: calls are scheduled without being awaited.
CanStartAlways(r) == TRUE

\* Every call is awaited: a statement starts only when no call is pending.
CanStart(r) == inflight[r] = <<>>

\* Mutant: the loop does not move on to the next frame.
FramesAfterSame(r) == framesLeft[r]

\* The frames still to visit once the current iteration has ended.
FramesAfter(r) == framesLeft[r] - 1

\* Where control is after the statement at ip[r] has finished without raising.
AfterReturn(r) ==
    IF pc[r] = "try"
    THEN IF Cur(r).kind = "wait_frame" /\ FramesAfter(r) > 0
         THEN [pc |-> "try", ip |-> ip[r], frames |-> FramesAfter(r), result |-> "running"]
         ELSE IF ip[r] < Len(Program(script[r]))
              THEN [pc |-> "try", ip |-> ip[r] + 1, frames |-> 0, result |-> "running"]
              ELSE [pc |-> "finally", ip |-> 1, frames |-> 0, result |-> "running"]
    ELSE IF ip[r] < Len(Finally)
         THEN [pc |-> "finally", ip |-> ip[r] + 1, frames |-> 0, result |-> "running"]
         ELSE [pc |-> "done", ip |-> ip[r], frames |-> 0,
               result |-> IF exc[r] = NoExc THEN "passed" ELSE "raised"]

\* Mutant: the error is dropped and the script carries on with the next statement.
AfterRaiseContinue(r) == AfterReturn(r)

\* Where control is after the statement at ip[r] has raised: an exception in try
\* enters finally, one in finally leaves run_test.
AfterRaise(r) ==
    IF pc[r] = "try"
    THEN [pc |-> "finally", ip |-> 1, frames |-> 0, result |-> "running"]
    ELSE [pc |-> "done", ip |-> ip[r], frames |-> 0, result |-> "raised"]

Goto(r, to) ==
    /\ pc' = [pc EXCEPT ![r] = to.pc]
    /\ ip' = [ip EXCEPT ![r] = to.ip]
    /\ framesLeft' = [framesLeft EXCEPT ![r] = to.frames]
    /\ result' = [result EXCEPT ![r] = to.result]

Entry(op, error) == [op |-> op, error |-> error]

Waits == {"wait_page", "wait_frame"}

\* The log after call op has ended with error e (NoExc: it returned).
Logged(r, op, e) == IF op.kind \in Waits THEN log[r] ELSE Append(log[r], Entry(op, e))

InitOf(rs) ==
    /\ runs = rs
    /\ script \in [rs -> Scripts]
    /\ pc = [r \in rs |-> "try"]
    /\ ip = [r \in rs |-> 1]
    /\ framesLeft = [r \in rs |-> 0]
    /\ inflight = [r \in rs |-> <<>>]
    /\ swallowed = [r \in rs |-> FALSE]
    /\ exc = [r \in rs |-> NoExc]
    /\ pw = [r \in rs |-> None]
    /\ browser = [r \in rs |-> None]
    /\ context = [r \in rs |-> None]
    /\ page = [r \in rs |-> None]
    /\ log = [r \in rs |-> <<>>]
    /\ result = [r \in rs |-> "running"]

\* One script process.
Init == InitOf({1})

\* Two script processes side by side, every pair of scripts up to the order of
\* the two (the processes are alike, so the other order adds nothing).
InitPair ==
    /\ InitOf({1, 2})
    /\ \E a, b \in 1..Len(ScriptOrder) :
          /\ a <= b
          /\ script[1] = ScriptOrder[a]
          /\ script[2] = ScriptOrder[b]

\* `await <call>`: the call starts.
Start(r) ==
    /\ pc[r] \in {"try", "finally"}
    /\ Cur(r).kind # "for"
    /\ CanStart(r)
    /\ pc[r] = "finally" => Guard(r, Cur(r))
    /\ inflight' = [inflight EXCEPT ![r] = Append(@, Cur(r))]
    /\ swallowed' = [swallowed EXCEPT ![r] = FALSE]
    /\ UNCHANGED <<runs, script, pc, ip, framesLeft, exc, pw, browser, context, page,
                   log, result>>

\* `for frame in page.frames:` the list is read once; it holds the main frame.
ForFrames(r) ==
    /\ pc[r] = "try"
    /\ Cur(r).kind = "for"
    /\ inflight[r] = <<>>
    /\ \E n \in 1..MaxFrames :
          /\ framesLeft' = [framesLeft EXCEPT ![r] = n]
          /\ ip' = [ip EXCEPT ![r] = @ + 1]
    /\ swallowed' = [swallowed EXCEPT ![r] = FALSE]
    /\ UNCHANGED <<runs, script, pc, inflight, exc, pw, browser, context, page, log, result>>

\* The pending call returns; an acquisition binds its local variable.
Complete(r) ==
    /\ inflight[r] # <<>>
    /\ LET op == Head(inflight[r]) IN
          /\ inflight' = [inflight EXCEPT ![r] = Tail(@)]
          /\ pw' = IF op.kind = "start"
                   THEN [pw EXCEPT ![r] = NewHandle(r, "pw")] ELSE pw
          /\ browser' = IF op.kind = "launch"
                        THEN [browser EXCEPT ![r] = NewHandle(r, "browser")] ELSE browser
          /\ context' = IF op.kind = "new_context"
                        THEN [context EXCEPT ![r] = NewHandle(r, "context")] ELSE context
          /\ page' = IF op.kind = "new_page"
                     THEN [page EXCEPT ![r] = NewHandle(r, "page")] ELSE page
          /\ log' = [log EXCEPT ![r] = Logged(r, op, NoExc)]
          /\ Goto(r, AfterReturn(r))
    /\ UNCHANGED <<runs, script, swallowed, exc>>

\* The pending call raises: the except clause around it, if any, decides what
\* leaves the statement.
Fail(r) ==
    /\ inflight[r] # <<>>
    /\ LET op == Head(inflight[r]) IN
       \E e \in Raises(op) :
          LET x == Propagated(op, e) IN
          /\ inflight' = [inflight EXCEPT ![r] = Tail(@)]
          /\ log' = [log EXCEPT ![r] = Logged(r, op, e)]
          /\ IF x = NoExc
             THEN /\ swallowed' = [swallowed EXCEPT ![r] = TRUE]
                  /\ Goto(r, AfterReturn(r))
                  /\ UNCHANGED exc
             ELSE /\ exc' = [exc EXCEPT ![r] = x]
                  /\ Goto(r, AfterRaise(r))
                  /\ UNCHANGED swallowed
    /\ UNCHANGED <<runs, script, pw, browser, context, page>>

\* A release whose variable is still None is passed over.
Skip(r) ==
    /\ pc[r] = "finally"
    /\ inflight[r] = <<>>
    /\ ~Guard(r, Cur(r))
    /\ Goto(r, AfterReturn(r))
    /\ UNCHANGED <<runs, script, inflight, swallowed, exc, pw, browser, context, page, log>>

Next ==
    \E r \in runs :
        \/ Start(r)
        \/ ForFrames(r)
        \/ Complete(r)
        \/ Fail(r)
        \/ Skip(r)

Spec == Init /\ [][Next]_vars

SpecPair == InitPair /\ [][Next]_vars

\* Every call that started returns or raises (its timeout expires at the latest),
\* and the event loop runs the coroutine whenever it can continue.
FairSpec == Init /\ [][Next]_vars /\ WF_vars(Next)

(***************************************************************************)
(* Properties                                                              *)
(***************************************************************************)

Last(q) == q[Len(q)]

Releases == {"close", "stop"}

Resources == {"context", "browser", "pw"}

\* Positions of the log of run r whose call is of one of the kinds.
LogAt(r, kinds) == {i \in DOMAIN log[r] : log[r][i].op.kind \in kinds}

\* The release of the named resource was called (whether or not it raised).
ReleaseCalled(r, name) ==
    \E i \in LogAt(r, Releases) : log[r][i].op.target = name

\* C1: when run_test has ended, every one of context, browser and pw that was
\* acquired has had its release called, wherever the run failed, the cleanup
\* calls included.
C1_AcquiredReleased ==
    \A r \in runs :
        pc[r] = "done" =>
            \A name \in Resources : Local(r, name) # None => ReleaseCalled(r, name)

\* The scripts whose final assertion stands inside try/except AssertionError.
Wrapped == {"TC005", "TC016", "TC020"}

\* The call that ended last is a final assertion whose text did not show in time.
AssertionTimedOut(r) ==
    /\ log[r] # <<>>
    /\ Last(log[r]).op.kind = "expect"
    /\ Last(log[r]).error = "AssertionError"

\* C2 (as stated): in all four scripts a final assertion that times out leaves
\* its statement as the script's descriptive error, never as the library's own.
C2_AlwaysDescriptive ==
    \A r \in runs : AssertionTimedOut(r) => exc[r] = "DescriptiveAssertionError"

\* C2 (amended): in TC005, TC016 and TC020 a final assertion that times out
\* leaves its statement as the script's descriptive error; in TC014 the ten
\* assertions are bare and the library's AssertionError leaves unchanged.
C2_DescriptiveWhereWrapped ==
    \A r \in runs :
        AssertionTimedOut(r) =>
            exc[r] = IF script[r] \in Wrapped
                     THEN "DescriptiveAssertionError" ELSE "AssertionError"

C2_Witness ==
    \E r \in runs :
        /\ AssertionTimedOut(r)
        /\ script[r] \in Wrapped
        /\ exc[r] = "DescriptiveAssertionError"

\* Run r stands at the first interaction step, the pause before the Login click.
AtLoginClick(r) ==
    /\ pc[r] = "try"
    /\ Cur(r).kind = "pause"
    /\ Program(script[r])[ip[r] + 1] = Op("click", "LoginLink", "", "none")

\* A load-state wait of run r is pending and ends in this step.
WaitEnds(r) ==
    /\ inflight[r] # <<>>
    /\ Head(inflight[r]).kind \in Waits
    /\ inflight'[r] = <<>>

\* C3: an error of the page's or of a frame's DOMContentLoaded wait never
\* aborts the script: however a wait ends, no exception is pending, the loop
\* goes on to the next frame, and after the last frame the script stands at the
\* Login click.
C3_WaitErrorsIgnored ==
    /\ [](\A r \in runs :
            swallowed[r] =>
                /\ pc[r] = "try"
                /\ exc[r] = NoExc
                /\ Cur(r).kind \in {"for", "wait_frame"} \/ AtLoginClick(r))
    /\ [][\A r \in runs :
            WaitEnds(r) =>
                /\ pc'[r] = "try"
                /\ exc'[r] = NoExc
                /\ IF Head(inflight[r]).kind = "wait_page"
                   THEN ip'[r] = ip[r] + 1 /\ Program(script[r])[ip'[r]].kind = "for"
                   ELSE /\ framesLeft'[r] = framesLeft[r] - 1
                        /\ framesLeft'[r] > 0 =>
                              ip'[r] = ip[r] /\ Cur(r).kind = "wait_frame"
                        /\ framesLeft'[r] = 0 => AtLoginClick(r)']_vars

C3_Witness == \E r \in runs : swallowed[r] /\ AtLoginClick(r)

Interaction == {"goto", "click", "fill", "wheel", "expect"}

IsInteraction(e) == e.op.kind \in Interaction

\* The interaction steps run r has performed, in order.
Interactions(r) == SelectSeq(log[r], IsInteraction)

Call(e) == <<e.op.kind, e.op.target>>

LoginCalls ==
    << <<"goto", "page">>, <<"click", "LoginLink">>, <<"fill", "Email">>,
       <<"fill", "Password">>, <<"click", "Submit">> >>

LoginRound == << <<"fill", "Email">>, <<"fill", "Password">>, <<"click", "Submit">> >>

FeatureLinks == {"DocumentsTab", "DocumentsQuickLink"}

\* q is a run of navigate, authenticate, one click on a feature link, assertions.
FourPhases(q) ==
    \A i \in DOMAIN q :
        IF i <= Len(LoginCalls) THEN Call(q[i]) = LoginCalls[i]
        ELSE IF i = Len(LoginCalls) + 1
             THEN q[i].op.kind = "click" /\ q[i].op.target \in FeatureLinks
             ELSE q[i].op.kind = "expect"

\* C4 (as stated): the interaction steps of every script are navigate, log in,
\* one click on the feature, then the assertions, and nothing else.
C4_FourPhasesEverywhere == \A r \in runs : FourPhases(Interactions(r))

\* What each script does between the first login and its assertions.
BeforeAssertions(s) ==
    CASE s = "TC005" -> << <<"click", "DocumentsTab">> >>
      [] s = "TC020" -> << <<"click", "DocumentsQuickLink">> >>
      [] s = "TC016" -> << <<"wheel", "page.mouse">>, <<"click", "DocumentsQuickLink">> >>
      [] s = "TC014" -> << <<"click", "Logout">> >> \o LoginRound \o LoginRound

\* C4 (amended): every script navigates, then logs in, and evaluates its
\* assertions last, after every other interaction step has succeeded. Between
\* login and assertions TC005 and TC020 click one feature link, TC016 scrolls
\* and then clicks one, and TC014 clicks Logout and fills and submits the login
\* form twice, with no feature click.
C4_PhasesPerScript ==
    \A r \in runs :
        LET q == Interactions(r)
            pre == LoginCalls \o BeforeAssertions(script[r])
        IN \A i \in DOMAIN q :
              /\ i <= Len(pre) => Call(q[i]) = pre[i]
              /\ i > Len(pre) =>
                    /\ q[i].op.kind = "expect"
                    /\ \A j \in 1..(i - 1) : q[j].error = NoExc

C4_Witness ==
    \E r \in runs :
        /\ script[r] = "TC016"
        /\ Len(Interactions(r)) > Len(LoginCalls \o BeforeAssertions("TC016"))

\* C5: once the navigation, a click, a fill or a final assertion has raised,
\* nothing but the releases of the finally block is called any more, and
\* run_test ends by raising.
C5_NoRetryNoRecovery ==
    \A r \in runs :
        \A i \in LogAt(r, {"goto", "click", "fill", "expect"}) :
            log[r][i].error # NoExc =>
                /\ \A j \in DOMAIN log[r] : j > i => log[r][j].op.kind \in Releases
                /\ \A k \in DOMAIN inflight[r] : inflight[r][k].kind \in Releases
                /\ pc[r] \in {"finally", "done"}
                /\ pc[r] = "done" => result[r] = "raised"

C5_Witness ==
    \E r \in runs :
        \E i \in LogAt(r, {"click"}) :
            /\ log[r][i].error # NoExc
            /\ Len(log[r]) > i
            /\ pc[r] = "done"

\* C6: every run ends: it reaches the finally block and then leaves run_test,
\* given that every call that started returns or raises.
C6_Terminates ==
    /\ <>(\A r \in runs : pc[r] = "finally")
    /\ <>(\A r \in runs : pc[r] = "done")

C6_Witness ==
    \E r \in runs :
        /\ pc[r] = "done"
        /\ \E i \in LogAt(r, {"click"}) : log[r][i].error = "TimeoutError"

\* The handles run r holds.
Held(r) == {pw[r], browser[r], context[r], page[r]} \ {None}

\* C7: a run has at most one call in flight, and no pw, browser, context or
\* page handle is held by two runs.
C7_OneCallInFlight ==
    /\ \A r \in runs : Len(inflight[r]) <= 1
    /\ \A r, q \in runs : r # q => Held(r) \cap Held(q) = {}

C7_Witness ==
    \E r, q \in runs :
        /\ r # q
        /\ Cardinality(Held(r)) = Cardinality({"pw", "browser", "context", "page"})
        /\ Cardinality(Held(q)) = Cardinality(Held(r))
        /\ Len(inflight[r]) = 1
        /\ Len(inflight[q]) = 1

\* The final assertions of a script, in order.
Assertions(s) ==
    CASE s = "TC005" -> << "Document processing completed successfully" >>
      [] s = "TC016" -> << "Batch size configuration successful" >>
      [] s = "TC020" -> << "Document upload successful and searchable within 2 minutes" >>
      [] s = "TC014" -> TC014Texts

IsExpect(e) == e.op.kind = "expect"

\* C8: run_test returns normally only if the navigation, every click and fill,
\* every final assertion and every release returned without raising; the
\* assertions are evaluated in the script's order and one that fails is the last
\* one evaluated (in TC014 all ten must pass).
C8_PassOnlyIfAllSucceeded ==
    \A r \in runs :
        LET asserted == SelectSeq(log[r], IsExpect)
            pre == LoginCalls \o BeforeAssertions(script[r])
        IN /\ Len(asserted) <= Len(Assertions(script[r]))
           /\ \A i \in DOMAIN asserted :
                 /\ asserted[i].op.target = Assertions(script[r])[i]
                 /\ i < Len(asserted) => asserted[i].error = NoExc
           /\ result[r] = "passed" =>
                 /\ \A i \in DOMAIN log[r] : log[r][i].error = NoExc
                 /\ Len(asserted) = Len(Assertions(script[r]))
                 /\ Len(Interactions(r)) = Len(pre) + Len(asserted)
                 /\ \A i \in DOMAIN pre : Call(Interactions(r)[i]) = pre[i]

C8_Witness == \E r \in runs : result[r] = "passed" /\ script[r] = "TC014"

\* C9: in TC005, TC016 and TC020, when the final assertion timed out, run_test
\* ends with the descriptive AssertionError, also when a release raises; and the
\* sleep after the assertion runs only when the assertion passed.
C9_DescriptiveErrorReachesCaller ==
    \A r \in runs :
        script[r] \in Wrapped =>
            /\ (pc[r] = "done" /\ \E i \in LogAt(r, {"expect"}) :
                                     log[r][i].error = "AssertionError")
                  => exc[r] = "DescriptiveAssertionError"
            /\ \A i \in LogAt(r, {"sleep"}) :
                  \E j \in LogAt(r, {"expect"}) : j < i /\ log[r][j].error = NoExc

\* Where in the log of run r the named resource was acquired.
AcquiredAt(r, name) ==
    CHOOSE i \in LogAt(r, {"start", "launch", "new_context"}) :
        log[r][i].op.target = name /\ log[r][i].error = NoExc

\* C10: the releases are called in the reverse of the order of acquisition,
\* each at most once, only in the finally block and only on a handle that was
\* acquired.
C10_ReleaseOrder ==
    \A r \in runs :
        LET called == LogAt(r, Releases)
            pending == {k \in DOMAIN inflight[r] : inflight[r][k].kind \in Releases}
        IN /\ \A i \in called : Local(r, log[r][i].op.target) # None
           /\ \A k \in pending : Local(r, inflight[r][k].target) # None
           /\ (called \cup pending) # {} => pc[r] \in {"finally", "done"}
           /\ \A i, j \in called :
                 i < j => AcquiredAt(r, log[r][i].op.target)
                              > AcquiredAt(r, log[r][j].op.target)
           /\ \A i \in called : \A k \in pending :
                 AcquiredAt(r, log[r][i].op.target)
                     > AcquiredAt(r, inflight[r][k].target)

C10_Witness ==
    \E r \in runs :
        /\ pc[r] = "done"
        /\ Cardinality(LogAt(r, Releases)) = Cardinality(Resources)
        /\ \A i \in LogAt(r, Releases) : log[r][i].error = NoExc

CallArg(e) == <<e.op.kind, e.op.target, e.op.arg>>

StandardRound ==
    << <<"fill", "Email", "jane.smith@example.com">>,
       <<"fill", "Password", "MySecurePassword123!">>,
       <<"click", "Submit", "">> >>

AdminRound ==
    << <<"fill", "Email", "admin@example.com">>,
       <<"fill", "Password", "AdminPassword!2025">>,
       <<"click", "Submit", "">> >>

\* What TC014 does from the navigation up to its first assertion.
TC014BeforeAssertions ==
    << <<"goto", "page", "http://localhost:5322">>, <<"click", "LoginLink", "">> >>
        \o StandardRound \o << <<"click", "Logout", "">> >> \o AdminRound \o AdminRound

\* The steps of the second administrator round within TC014BeforeAssertions.
SecondAdminRound ==
    (Len(TC014BeforeAssertions) - Len(AdminRound) + 1)..Len(TC014BeforeAssertions)

\* C11: in TC014 an assertion is evaluated only after the standard-user login,
\* the Logout click and two administrator login rounds on the same form have
\* all succeeded, in this order; when a step of the second administrator round
\* fails (the form is not there), no assertion is evaluated and run_test raises.
C11_TC014LoginRoundsBeforeAssertions ==
    \A r \in runs :
        script[r] = "TC014" =>
            LET q == Interactions(r)
                asserted == {i \in DOMAIN q : q[i].op.kind = "expect"}
            IN /\ asserted # {} =>
                     /\ Len(q) > Len(TC014BeforeAssertions)
                     /\ \A i \in DOMAIN TC014BeforeAssertions :
                           /\ CallArg(q[i]) = TC014BeforeAssertions[i]
                           /\ q[i].error = NoExc
                     /\ \A i \in asserted : i > Len(TC014BeforeAssertions)
               /\ \A i \in SecondAdminRound \cap DOMAIN q :
                     q[i].error # NoExc =>
                         /\ asserted = {}
                         /\ Len(q) = i
                         /\ pc[r] \in {"finally", "done"}
                         /\ pc[r] = "done" => result[r] = "raised"

C11_Witness ==
    \E r \in runs :
        /\ script[r] = "TC014"
        /\ \E i \in DOMAIN Interactions(r) :
              /\ Interactions(r)[i].op.kind = "expect"
              /\ i > Len(TC014BeforeAssertions)

====
